---- MODULE Spec2Model ----
(***************************************************************************)
(* Model of the process lifecycle orchestrator DXApp (src/app/app.go):     *)
(* Set / GetNameId, Run -> execute -> start, Stop, and the errgroup that   *)
(* supervises the run loops registered by the API manager, the task        *)
(* manager and OnExecute.                                                  *)
(*                                                                         *)
(* The initiating thread is modelled by pc, one step per call site of      *)
(* app.go. Every hook and manager call is opaque: its result is drawn      *)
(* from {Nil, Err(site)}. Tasks launched into the errgroup run             *)
(* concurrently with the initiating thread.                                *)
(***************************************************************************)
EXTENDS Naturals, Sequences, FiniteSets, TLC

\* Configuration sections start looks up (app.go:106,113,120,151).
Sections == {"redis", "storage", "api", "tasks"}

\* The six optional hook fields of DXApp (app.go:61-66).
DefineHooks == {"OnDefine", "OnDefineConfiguration", "OnDefineAPI"}
RunHooks == {"OnExecute", "OnStartStorageReady", "OnStopping"}
HookNames == DefineHooks \cup RunHooks

\* The hook assignments of the embedding application that are explored: every
\* combination of the define hooks with the other hooks all set or all unset,
\* and every combination of the other hooks with all define hooks set.
HookSets ==
    {d \cup r : d \in SUBSET DefineHooks, r \in {{}, RunHooks}}
       \cup {DefineHooks \cup r : r \in SUBSET RunHooks}

\* Most run loops one StartAll / OnExecute call registers into the errgroup.
MaxLaunch == 1

\* Argument lists <<nameId, title, description, isLoop, debugKey>> the
\* embedding application passes to Set.
SetArgs == { <<"svc1", "Title", "Desc", TRUE, "k">>,
             <<"svc2", "Title2", "Desc", FALSE, "j">> }

\* Value of the DEBUG_KEY environment variable (app.go:241).
EnvDebugKey == "k"

\* The nil error, and the error a failing call site returns.
Nil == "nil"
Err(site) == "error:" \o site
Outcomes(site) == {Nil, Err(site)}

\* Errors a run loop launched into the errgroup may return.
TaskErrors == {"E1", "E2"}

\* The statements of start in program order (app.go:102-159); the two steps
\* after databases.ConnectAllAtStart are inside the storage branch.
StartStepsStorageFirst ==
    << "configurations.Load",
       "redis.LoadFromConfiguration", "databases.LoadFromConfiguration",
       "api.lookup",
       "databases.ConnectAllAtStart", "tables.ConnectAll", "OnStartStorageReady",
       "redis.ConnectAllAtStart",
       "api.StartAll", "tasks.StartAll", "start.return" >>

\* start with the API started right after the presence lookups
StartStepsApiBeforeConnect ==
    << "configurations.Load",
       "redis.LoadFromConfiguration", "databases.LoadFromConfiguration",
       "api.lookup", "api.StartAll", "redis.ConnectAllAtStart",
       "databases.ConnectAllAtStart", "tables.ConnectAll", "OnStartStorageReady",
       "tasks.StartAll", "start.return" >>

\* start with each subsystem connected right after it is loaded
StartStepsConnectAfterLoad ==
    << "configurations.Load",
       "redis.LoadFromConfiguration", "redis.ConnectAllAtStart",
       "databases.LoadFromConfiguration", "databases.ConnectAllAtStart",
       "tables.ConnectAll", "OnStartStorageReady",
       "api.lookup", "api.StartAll", "tasks.StartAll", "start.return" >>

StartSteps ==
    << "configurations.Load",
       "redis.LoadFromConfiguration", "databases.LoadFromConfiguration",
       "api.lookup", "redis.ConnectAllAtStart",
       "databases.ConnectAllAtStart", "tables.ConnectAll", "OnStartStorageReady",
       "api.StartAll", "tasks.StartAll", "start.return" >>

\* The statements of Stop after the OnStopping hook, in program order
\* (app.go:167-192).
StopStepsApiFirst ==
    << "api.StopAll", "tasks.StopAll", "redis.DisconnectAll",
       "databases.DisconnectAll", "Stop.return" >>

StopSteps ==
    << "tasks.StopAll", "api.StopAll", "redis.DisconnectAll",
       "databases.DisconnectAll", "Stop.return" >>

\* the statement that follows step in program order
After(steps, step) == steps[(CHOOSE i \in DOMAIN steps : steps[i] = step) + 1]

VARIABLES
    \* fields of the singleton App written by Set (app.go:234-243)
    nameId, Title, Description, IsLoop, DebugKey, IsDebug, AppNameId, LogPrefix,
    \* hook fields that are non-nil
    hooks,
    \* presence flags (app.go:55-58)
    IsRedisExist, IsStorageExist, IsAPIExist, IsTaskExist,
    \* configurations.Manager.Configurations as the start call in progress
    \* sees it: the sections of the map it loaded ({} outside start, where
    \* the orchestrator never reads the map)
    Configurations,
    \* core.RootContext has been canceled
    RootContextDone,
    \* a.RuntimeErrorGroup: [running, err]; a.RuntimeErrorGroupContext canceled
    RuntimeErrorGroup, RuntimeErrorGroupContextDone,
    \* position of the initiating thread, execute's pending result, whether
    \* execute has deferred Stop, and who called the Stop in progress
    pc, retErr, deferStop, stopCaller,
    \* results of the current/most recent Run, start and Stop
    runResult, startResult, stopResult,
    \* history: the calls made by the current/most recent call of the
    \* application (Run, or Stop called by the application), by the most
    \* recent start and by the most recent Stop, each with the error returned
    calls, startCalls, stopCalls,
    \* history: the first non-nil error a task of the current group returned
    \* and the number of its siblings still running then; the nameId passed
    \* to the most recent Set
    firstFailure, lastSetNameId

appVars == <<nameId, Title, Description, IsLoop, DebugKey, IsDebug, AppNameId, LogPrefix>>
flagVars == <<IsRedisExist, IsStorageExist, IsAPIExist, IsTaskExist>>
groupVars == <<RuntimeErrorGroup, RuntimeErrorGroupContextDone, firstFailure>>
threadVars == <<pc, retErr, deferStop, stopCaller>>
resultVars == <<runResult, startResult, stopResult>>
logVars == <<calls, startCalls, stopCalls>>

vars == <<appVars, hooks, flagVars, Configurations, RootContextDone, groupVars,
          threadVars, resultVars, logVars, lastSetNameId>>

Call(name, e) == [op |-> name, err |-> e]

NoFailure == [err |-> Nil, siblings |-> 0]

\* The state after package init (app.go:248-255) and after the embedding
\* application has assigned the hook fields it uses.
Init ==
    /\ nameId = "" /\ Title = "" /\ Description = "" /\ IsLoop = FALSE
    /\ DebugKey = "" /\ IsDebug = FALSE /\ AppNameId = "" /\ LogPrefix = ""
    /\ hooks \in HookSets
    /\ IsRedisExist = FALSE /\ IsStorageExist = FALSE
    /\ IsAPIExist = FALSE /\ IsTaskExist = FALSE
    /\ Configurations = {}
    /\ RootContextDone = FALSE
    /\ RuntimeErrorGroup = [running |-> 0, err |-> Nil]
    /\ RuntimeErrorGroupContextDone = FALSE
    /\ pc = "idle" /\ retErr = Nil /\ deferStop = FALSE /\ stopCaller = "none"
    /\ runResult = "none" /\ startResult = "none" /\ stopResult = "none"
    /\ calls = <<>> /\ startCalls = <<>> /\ stopCalls = <<>>
    /\ firstFailure = NoFailure
    /\ lastSetNameId = "none"

----------------------------------------------------------------------------
\* Set and GetNameId (app.go:234-247). The embedding application calls Set
\* before its first Run, any number of times.

SetWrongField(n, t, d, l, k) ==
    /\ pc = "idle"
    /\ runResult = "none"
    /\ AppNameId' = n
    /\ nameId' = t
    /\ Title' = t
    /\ Description' = d
    /\ IsLoop' = l
    /\ DebugKey' = k
    /\ IsDebug' = (EnvDebugKey = k)
    /\ LogPrefix' = n
    /\ lastSetNameId' = n
    /\ UNCHANGED <<hooks, flagVars, Configurations, RootContextDone, groupVars,
                   threadVars, resultVars, logVars>>

Set(n, t, d, l, k) ==
    /\ pc = "idle"
    /\ runResult = "none"
    /\ AppNameId' = n
    /\ nameId' = n
    /\ Title' = t
    /\ Description' = d
    /\ IsLoop' = l
    /\ DebugKey' = k
    /\ IsDebug' = (EnvDebugKey = k)
    /\ LogPrefix' = n
    /\ lastSetNameId' = n
    /\ UNCHANGED <<hooks, flagVars, Configurations, RootContextDone, groupVars,
                   threadVars, resultVars, logVars>>

GetNameId == nameId

----------------------------------------------------------------------------
\* Run (app.go:69-98)

\* The embedding application calls Run, after it has called Set.
Run ==
    /\ pc = "idle"
    /\ lastSetNameId # "none"
    /\ pc' = "OnDefine"
    /\ retErr' = Nil /\ deferStop' = FALSE /\ stopCaller' = "none"
    /\ runResult' = "running" /\ startResult' = "none" /\ stopResult' = "none"
    /\ calls' = <<>> /\ startCalls' = <<>> /\ stopCalls' = <<>>
    /\ UNCHANGED <<appVars, hooks, flagVars, Configurations, RootContextDone,
                   groupVars, lastSetNameId>>

\* One define hook: invoked only if set; a non-nil error is returned by Run.
DefineHookIgnoreError(h, next) ==
    /\ pc = h
    /\ IF h \in hooks
          THEN \E e \in Outcomes(h) :
                  /\ calls' = Append(calls, Call(h, e))
                  /\ pc' = next
                  /\ UNCHANGED runResult
          ELSE /\ pc' = next
               /\ UNCHANGED <<calls, runResult>>
    /\ UNCHANGED <<appVars, hooks, flagVars, Configurations, RootContextDone,
                   groupVars, retErr, deferStop, stopCaller, startResult,
                   stopResult, startCalls, stopCalls, lastSetNameId>>

DefineHook(h, next) ==
    /\ pc = h
    /\ IF h \in hooks
          THEN \E e \in Outcomes(h) :
                  /\ calls' = Append(calls, Call(h, e))
                  /\ IF e # Nil
                        THEN /\ runResult' = e
                             /\ pc' = "idle"
                        ELSE /\ pc' = next
                             /\ UNCHANGED runResult
          ELSE /\ pc' = next
               /\ UNCHANGED <<calls, runResult>>
    /\ UNCHANGED <<appVars, hooks, flagVars, Configurations, RootContextDone,
                   groupVars, retErr, deferStop, stopCaller, startResult,
                   stopResult, startCalls, stopCalls, lastSetNameId>>

\* app.go:70-76
OnDefine == DefineHook("OnDefine", "OnDefineConfiguration")

\* app.go:77-83
OnDefineConfiguration == DefineHook("OnDefineConfiguration", "OnDefineAPI")

\* app.go:84-92
OnDefineAPI == DefineHook("OnDefineAPI", "execute")

----------------------------------------------------------------------------
\* execute, first part (app.go:195-198): the root-context cancellation is
\* deferred, a new errgroup is derived from core.RootContext, start begins.

Execute ==
    /\ pc = "execute"
    /\ calls' = Append(calls, Call("execute", Nil))
    /\ RuntimeErrorGroup' = [running |-> 0, err |-> Nil]
    /\ RuntimeErrorGroupContextDone' = RootContextDone
    /\ firstFailure' = NoFailure
    /\ startResult' = "running"
    /\ pc' = StartSteps[1]
    /\ UNCHANGED <<appVars, hooks, flagVars, Configurations, RootContextDone,
                   retErr, deferStop, stopCaller, runResult, stopResult,
                   startCalls, stopCalls, lastSetNameId>>

----------------------------------------------------------------------------
\* start (app.go:100-160)

\* the lookup `_, ok = configurations.Manager.Configurations[section]`
HasSectionCopyPaste(section) ==
    IF section = "tasks" THEN "api" \in Configurations ELSE section \in Configurations

HasSection(section) == section \in Configurations

\* start returns e; execute returns it at once (app.go:199-201), leaving only
\* the deferred root-context cancellation to run.
StartFailRunsStop(e) ==
    /\ startResult' = e
    /\ retErr' = e
    /\ pc' = "Stop"
    /\ stopCaller' = "defer"
    /\ Configurations' = {}
    /\ UNCHANGED deferStop

StartFail(e) ==
    /\ startResult' = e
    /\ retErr' = e
    /\ pc' = "RootContextCancel"
    /\ Configurations' = {}
    /\ UNCHANGED <<deferStop, stopCaller>>

StartGoto(next) ==
    /\ pc' = next
    /\ UNCHANGED <<Configurations, startResult, retErr, deferStop, stopCaller>>

\* start calls a manager method or hook; any error aborts start.
StartCall(name, next) ==
    \E e \in Outcomes(name) :
       /\ calls' = Append(calls, Call(name, e))
       /\ startCalls' = Append(startCalls, Call(name, e))
       /\ UNCHANGED stopCalls
       /\ IF e # Nil THEN StartFail(e) ELSE StartGoto(next)

StartSkip(next) ==
    /\ UNCHANGED logVars
    /\ StartGoto(next)

\* a StartAll / OnExecute call registers n run loops with g.Go
Launch(n) ==
    /\ RuntimeErrorGroup' = [RuntimeErrorGroup EXCEPT !.running = @ + n]
    /\ UNCHANGED <<RuntimeErrorGroupContextDone, firstFailure>>

\* a configuration load that clears the presence flags when it fails
LoadConfigurationClearsFlags ==
    /\ pc = "configurations.Load"
    /\ \E e \in Outcomes("configurations.Load") :
          /\ calls' = Append(calls, Call("configurations.Load", e))
          /\ startCalls' = Append(startCalls, Call("configurations.Load", e))
          /\ IF e # Nil
                THEN /\ StartFail(e)
                     /\ IsRedisExist' = FALSE /\ IsStorageExist' = FALSE
                     /\ IsAPIExist' = FALSE /\ IsTaskExist' = FALSE
                ELSE /\ pc' = After(StartSteps, "configurations.Load")
                     /\ Configurations' \in SUBSET Sections
                     /\ UNCHANGED <<startResult, retErr, deferStop, stopCaller>>
                     /\ UNCHANGED flagVars
    /\ UNCHANGED <<appVars, hooks, RootContextDone, groupVars,
                   runResult, stopResult, stopCalls, lastSetNameId>>

\* app.go:102-105
LoadConfiguration ==
    /\ pc = "configurations.Load"
    /\ \E e \in Outcomes("configurations.Load") :
          /\ calls' = Append(calls, Call("configurations.Load", e))
          /\ startCalls' = Append(startCalls, Call("configurations.Load", e))
          /\ IF e # Nil
                THEN StartFail(e)
                ELSE /\ pc' = After(StartSteps, "configurations.Load")
                     /\ Configurations' \in SUBSET Sections
                     /\ UNCHANGED <<startResult, retErr, deferStop, stopCaller>>
    /\ UNCHANGED <<appVars, hooks, flagVars, RootContextDone, groupVars,
                   runResult, stopResult, stopCalls, lastSetNameId>>

\* app.go:106-112
RedisLoad ==
    /\ pc = "redis.LoadFromConfiguration"
    /\ IsRedisExist' = HasSection("redis")
    /\ IF IsRedisExist'
          THEN StartCall("redis.LoadFromConfiguration",
                         After(StartSteps, "redis.LoadFromConfiguration"))
          ELSE StartSkip(After(StartSteps, "redis.LoadFromConfiguration"))
    /\ UNCHANGED <<appVars, hooks, IsStorageExist, IsAPIExist, IsTaskExist,
                   RootContextDone, groupVars, runResult, stopResult,
                   lastSetNameId>>

\* the storage flag assigned only once the storage manager has loaded
StorageLoadFlagOnSuccess ==
    /\ pc = "databases.LoadFromConfiguration"
    /\ IF HasSection("storage")
          THEN StartCall("databases.LoadFromConfiguration",
                         After(StartSteps, "databases.LoadFromConfiguration"))
          ELSE StartSkip(After(StartSteps, "databases.LoadFromConfiguration"))
    /\ IsStorageExist' = (HasSection("storage") /\ startResult' = "running")
    /\ UNCHANGED <<appVars, hooks, IsRedisExist, IsAPIExist, IsTaskExist,
                   RootContextDone, groupVars, runResult, stopResult,
                   lastSetNameId>>

\* app.go:113-119
StorageLoad ==
    /\ pc = "databases.LoadFromConfiguration"
    /\ IsStorageExist' = HasSection("storage")
    /\ IF IsStorageExist'
          THEN StartCall("databases.LoadFromConfiguration",
                         After(StartSteps, "databases.LoadFromConfiguration"))
          ELSE StartSkip(After(StartSteps, "databases.LoadFromConfiguration"))
    /\ UNCHANGED <<appVars, hooks, IsRedisExist, IsAPIExist, IsTaskExist,
                   RootContextDone, groupVars, runResult, stopResult,
                   lastSetNameId>>

\* app.go:120
ApiLookup ==
    /\ pc = "api.lookup"
    /\ IsAPIExist' = HasSection("api")
    /\ StartSkip(After(StartSteps, "api.lookup"))
    /\ UNCHANGED <<appVars, hooks, IsRedisExist, IsStorageExist, IsTaskExist,
                   RootContextDone, groupVars, runResult, stopResult,
                   lastSetNameId>>

\* app.go:122-127
RedisConnect ==
    /\ pc = "redis.ConnectAllAtStart"
    /\ IF IsRedisExist
          THEN StartCall("redis.ConnectAllAtStart",
                         After(StartSteps, "redis.ConnectAllAtStart"))
          ELSE StartSkip(After(StartSteps, "redis.ConnectAllAtStart"))
    /\ UNCHANGED <<appVars, hooks, flagVars, RootContextDone, groupVars,
                   runResult, stopResult, lastSetNameId>>

\* app.go:128-132; without storage the whole branch (app.go:128-144) is skipped
StorageConnect ==
    /\ pc = "databases.ConnectAllAtStart"
    /\ IF IsStorageExist
          THEN StartCall("databases.ConnectAllAtStart",
                         After(StartSteps, "databases.ConnectAllAtStart"))
          ELSE StartSkip(After(StartSteps, "OnStartStorageReady"))
    /\ UNCHANGED <<appVars, hooks, flagVars, RootContextDone, groupVars,
                   runResult, stopResult, lastSetNameId>>

\* app.go:133-136 (inside the storage branch)
TablesConnect ==
    /\ pc = "tables.ConnectAll"
    /\ StartCall("tables.ConnectAll", After(StartSteps, "tables.ConnectAll"))
    /\ UNCHANGED <<appVars, hooks, flagVars, RootContextDone, groupVars,
                   runResult, stopResult, lastSetNameId>>

\* app.go:137-143 (inside the storage branch)
OnStartStorageReady ==
    /\ pc = "OnStartStorageReady"
    /\ IF "OnStartStorageReady" \in hooks
          THEN StartCall("OnStartStorageReady",
                         After(StartSteps, "OnStartStorageReady"))
          ELSE StartSkip(After(StartSteps, "OnStartStorageReady"))
    /\ UNCHANGED <<appVars, hooks, flagVars, RootContextDone, groupVars,
                   runResult, stopResult, lastSetNameId>>

\* app.go:145-150: api.Manager.StartAll registers its run loops into the group
ApiStart ==
    /\ pc = "api.StartAll"
    /\ IF IsAPIExist
          THEN /\ StartCall("api.StartAll", After(StartSteps, "api.StartAll"))
               /\ \E n \in 0..MaxLaunch : Launch(n)
          ELSE /\ StartSkip(After(StartSteps, "api.StartAll"))
               /\ UNCHANGED groupVars
    /\ UNCHANGED <<appVars, hooks, flagVars, RootContextDone, runResult,
                   stopResult, lastSetNameId>>

\* app.go:151-158: the tasks lookup and tasks.Manager.StartAll
TasksStart ==
    /\ pc = "tasks.StartAll"
    /\ IsTaskExist' = HasSection("tasks")
    /\ IF IsTaskExist'
          THEN /\ StartCall("tasks.StartAll", After(StartSteps, "tasks.StartAll"))
               /\ \E n \in 0..MaxLaunch : Launch(n)
          ELSE /\ StartSkip(After(StartSteps, "tasks.StartAll"))
               /\ UNCHANGED groupVars
    /\ UNCHANGED <<appVars, hooks, IsRedisExist, IsStorageExist, IsAPIExist,
                   RootContextDone, runResult, stopResult, lastSetNameId>>

----------------------------------------------------------------------------
\* execute, second part (app.go:199-230)

\* execute returns e: the deferred calls run in reverse order of their
\* registration, the deferred Stop (if registered) before RootContextCancel.
ExecuteReturnNoStop(e) ==
    /\ retErr' = e
    /\ pc' = "RootContextCancel"
    /\ UNCHANGED <<deferStop, stopCaller>>

ExecuteReturn(e) ==
    /\ retErr' = e
    /\ IF deferStop
          THEN pc' = "Stop" /\ stopCaller' = "defer"
          ELSE pc' = "RootContextCancel" /\ UNCHANGED stopCaller
    /\ UNCHANGED deferStop

\* execute waiting for the group whatever isLoop is
ExecuteContinueAlwaysWait ==
    pc' = "Wait" /\ UNCHANGED <<retErr, deferStop, stopCaller>>

\* app.go:221-229 when OnExecute did not fail: wait if IsLoop, else return nil
ExecuteContinue ==
    IF IsLoop
       THEN pc' = "Wait" /\ UNCHANGED <<retErr, deferStop, stopCaller>>
       ELSE ExecuteReturn(Nil)

\* start returned nil (app.go:159, 199); Stop is deferred if IsLoop
\* (app.go:202-210)
DeferStop ==
    /\ pc = "start.return"
    /\ startResult' = Nil
    /\ Configurations' = {}
    /\ deferStop' = IsLoop
    /\ pc' = "OnExecute"
    /\ UNCHANGED <<appVars, hooks, flagVars, RootContextDone, groupVars,
                   retErr, stopCaller, runResult, stopResult, logVars,
                   lastSetNameId>>

\* app.go:213-221: OnExecute may register run loops into the group; its error
\* is returned by execute.
OnExecute ==
    /\ pc = "OnExecute"
    /\ IF "OnExecute" \in hooks
          THEN /\ \E n \in 0..MaxLaunch : Launch(n)
               /\ \E e \in Outcomes("OnExecute") :
                     /\ calls' = Append(calls, Call("OnExecute", e))
                     /\ IF e # Nil THEN ExecuteReturn(e) ELSE ExecuteContinue
          ELSE /\ UNCHANGED <<calls, groupVars>>
               /\ ExecuteContinue
    /\ UNCHANGED <<appVars, hooks, flagVars, Configurations, RootContextDone,
                   resultVars, startCalls, stopCalls, lastSetNameId>>

\* errgroup.Group.Wait: blocks until every launched task has returned, cancels
\* the group's context and returns the recorded error.
GroupWaitEnabled == RuntimeErrorGroup.running = 0

GroupWaitResult == RuntimeErrorGroup.err

\* app.go:221-229
WaitDropError ==
    /\ pc = "Wait"
    /\ GroupWaitEnabled
    /\ calls' = Append(calls, Call("Wait", GroupWaitResult))
    /\ RuntimeErrorGroupContextDone' = TRUE
    /\ ExecuteReturn(Nil)
    /\ UNCHANGED <<appVars, hooks, flagVars, Configurations, RootContextDone,
                   RuntimeErrorGroup, firstFailure, resultVars, startCalls,
                   stopCalls, lastSetNameId>>

\* a wait that returns as soon as the group's context is cancelled
WaitUntilCancelled ==
    /\ pc = "Wait"
    /\ RuntimeErrorGroupContextDone
    /\ calls' = Append(calls, Call("Wait", GroupWaitResult))
    /\ RuntimeErrorGroupContextDone' = TRUE
    /\ ExecuteReturn(GroupWaitResult)
    /\ UNCHANGED <<appVars, hooks, flagVars, Configurations, RootContextDone,
                   RuntimeErrorGroup, firstFailure, resultVars, startCalls,
                   stopCalls, lastSetNameId>>

Wait ==
    /\ pc = "Wait"
    /\ GroupWaitEnabled
    /\ calls' = Append(calls, Call("Wait", GroupWaitResult))
    /\ RuntimeErrorGroupContextDone' = TRUE
    /\ ExecuteReturn(GroupWaitResult)
    /\ UNCHANGED <<appVars, hooks, flagVars, Configurations, RootContextDone,
                   RuntimeErrorGroup, firstFailure, resultVars, startCalls,
                   stopCalls, lastSetNameId>>

\* The deferred core.RootContextCancel (app.go:196) runs, execute returns
\* retErr and Run returns it (app.go:92-97).
RootContextCancel ==
    /\ pc = "RootContextCancel"
    /\ calls' = Append(calls, Call("RootContextCancel", Nil))
    /\ RootContextDone' = TRUE
    /\ RuntimeErrorGroupContextDone' = TRUE
    /\ runResult' = retErr
    /\ pc' = "idle"
    /\ UNCHANGED <<appVars, hooks, flagVars, Configurations, RuntimeErrorGroup,
                   firstFailure, retErr, deferStop, stopCaller, startResult,
                   stopResult, startCalls, stopCalls, lastSetNameId>>

\* A run loop launched with g.Go returns e: the first non-nil error is
\* recorded and cancels the group's context.
TaskReturn(e) ==
    /\ RuntimeErrorGroup.running > 0
    /\ IF e # Nil /\ RuntimeErrorGroup.err = Nil
          THEN /\ RuntimeErrorGroup' = [running |-> RuntimeErrorGroup.running - 1, err |-> e]
               /\ RuntimeErrorGroupContextDone' = TRUE
          ELSE /\ RuntimeErrorGroup' = [RuntimeErrorGroup EXCEPT !.running = @ - 1]
               /\ UNCHANGED RuntimeErrorGroupContextDone
    /\ firstFailure' = IF e # Nil /\ firstFailure.err = Nil
                          THEN [err |-> e, siblings |-> RuntimeErrorGroup.running - 1]
                          ELSE firstFailure
    /\ UNCHANGED <<appVars, hooks, flagVars, Configurations, RootContextDone,
                   threadVars, resultVars, logVars, lastSetNameId>>

----------------------------------------------------------------------------
\* Stop (app.go:162-193)

\* Stop returns e, to the deferred closure of execute (which logs and drops
\* it, app.go:204-207) or to the embedding application.
StopReturnPropagate(e) ==
    /\ stopResult' = e
    /\ IF stopCaller = "defer"
          THEN pc' = "RootContextCancel" /\ retErr' = IF e # Nil THEN e ELSE retErr
          ELSE pc' = "idle" /\ UNCHANGED retErr
    /\ UNCHANGED <<deferStop, stopCaller>>

StopReturn(e) ==
    /\ stopResult' = e
    /\ pc' = IF stopCaller = "defer" THEN "RootContextCancel" ELSE "idle"
    /\ UNCHANGED <<retErr, deferStop, stopCaller>>

StopGoto(next) ==
    /\ pc' = next
    /\ UNCHANGED <<stopResult, retErr, deferStop, stopCaller>>

\* Stop makes a call
StopLog(name, e) ==
    /\ stopCalls' = Append(stopCalls, Call(name, e))
    /\ calls' = Append(calls, Call(name, e))
    /\ UNCHANGED startCalls

\* a teardown step that carries on with the next step after an error
StopStepKeepGoing(flag, name) ==
    IF flag
       THEN \E e \in Outcomes(name) :
               /\ StopLog(name, e)
               /\ StopGoto(After(StopSteps, name))
       ELSE /\ UNCHANGED logVars
            /\ StopGoto(After(StopSteps, name))

\* one teardown step: called if its presence flag is set; an error aborts Stop
StopStep(flag, name) ==
    IF flag
       THEN \E e \in Outcomes(name) :
               /\ StopLog(name, e)
               /\ IF e # Nil THEN StopReturn(e) ELSE StopGoto(After(StopSteps, name))
       ELSE /\ UNCHANGED logVars
            /\ StopGoto(After(StopSteps, name))

\* the value OnStopping returned is dropped (app.go:165)
AfterOnStoppingReturnError(e) ==
    IF e # Nil THEN StopReturn(e) ELSE StopGoto(StopSteps[1])

AfterOnStopping(e) == StopGoto(StopSteps[1])

\* The embedding application calls Stop, before its first Run or once after
\* a Run has returned.
ExternalStop ==
    /\ pc = "idle"
    /\ stopCaller # "external"
    /\ pc' = "Stop"
    /\ stopCaller' = "external"
    /\ calls' = <<>>
    /\ UNCHANGED <<appVars, hooks, flagVars, Configurations, RootContextDone,
                   groupVars, retErr, deferStop, resultVars, startCalls,
                   stopCalls, lastSetNameId>>

\* Stop is entered (app.go:162-163)
StopBegin ==
    /\ pc = "Stop"
    /\ pc' = "OnStopping"
    /\ stopResult' = "running"
    /\ stopCalls' = <<>>
    /\ calls' = Append(calls, Call("Stop", Nil))
    /\ UNCHANGED <<appVars, hooks, flagVars, Configurations, RootContextDone,
                   groupVars, retErr, deferStop, stopCaller, runResult,
                   startResult, startCalls, lastSetNameId>>

\* app.go:164-166
OnStopping ==
    /\ pc = "OnStopping"
    /\ IF "OnStopping" \in hooks
          THEN \E e \in Outcomes("OnStopping") :
                  /\ StopLog("OnStopping", e)
                  /\ AfterOnStopping(e)
          ELSE /\ UNCHANGED logVars
               /\ StopGoto(StopSteps[1])
    /\ UNCHANGED <<appVars, hooks, flagVars, Configurations, RootContextDone,
                   groupVars, runResult, startResult, lastSetNameId>>

\* app.go:167-172
StopTasks ==
    /\ pc = "tasks.StopAll"
    /\ StopStep(IsTaskExist, "tasks.StopAll")
    /\ UNCHANGED <<appVars, hooks, flagVars, Configurations, RootContextDone,
                   groupVars, runResult, startResult, lastSetNameId>>

\* app.go:173-178
StopAPI ==
    /\ pc = "api.StopAll"
    /\ StopStep(IsAPIExist, "api.StopAll")
    /\ UNCHANGED <<appVars, hooks, flagVars, Configurations, RootContextDone,
                   groupVars, runResult, startResult, lastSetNameId>>

\* a cache teardown that clears the cache flag once it is done
StopRedisClearsFlag ==
    /\ pc = "redis.DisconnectAll"
    /\ StopStep(IsRedisExist, "redis.DisconnectAll")
    /\ IsRedisExist' = FALSE
    /\ UNCHANGED <<appVars, hooks, IsStorageExist, IsAPIExist, IsTaskExist,
                   Configurations, RootContextDone,
                   groupVars, runResult, startResult, lastSetNameId>>

\* app.go:179-184
StopRedis ==
    /\ pc = "redis.DisconnectAll"
    /\ StopStep(IsRedisExist, "redis.DisconnectAll")
    /\ UNCHANGED <<appVars, hooks, flagVars, Configurations, RootContextDone,
                   groupVars, runResult, startResult, lastSetNameId>>

\* app.go:185-190
StopStorage ==
    /\ pc = "databases.DisconnectAll"
    /\ StopStep(IsStorageExist, "databases.DisconnectAll")
    /\ UNCHANGED <<appVars, hooks, flagVars, Configurations, RootContextDone,
                   groupVars, runResult, startResult, lastSetNameId>>

\* app.go:191-192
StopReturnNil ==
    /\ pc = "Stop.return"
    /\ StopReturn(Nil)
    /\ UNCHANGED <<appVars, hooks, flagVars, Configurations, RootContextDone,
                   groupVars, runResult, startResult, logVars, lastSetNameId>>

----------------------------------------------------------------------------

Next ==
    \/ \E a \in SetArgs : Set(a[1], a[2], a[3], a[4], a[5])
    \/ Run
    \/ OnDefine
    \/ OnDefineConfiguration
    \/ OnDefineAPI
    \/ Execute
    \/ LoadConfiguration
    \/ RedisLoad
    \/ StorageLoad
    \/ ApiLookup
    \/ RedisConnect
    \/ StorageConnect
    \/ TablesConnect
    \/ OnStartStorageReady
    \/ ApiStart
    \/ TasksStart
    \/ DeferStop
    \/ OnExecute
    \/ Wait
    \/ RootContextCancel
    \/ \E e \in {Nil} \cup TaskErrors : TaskReturn(e)
    \/ ExternalStop
    \/ StopBegin
    \/ OnStopping
    \/ StopTasks
    \/ StopAPI
    \/ StopRedis
    \/ StopStorage
    \/ StopReturnNil

Spec == Init /\ [][Next]_vars

----------------------------------------------------------------------------
\* Vocabulary of the properties

Called(log, name) == \E i \in DOMAIN log : log[i].op = name

Count(log, name) == Cardinality({i \in DOMAIN log : log[i].op = name})

First(log, name) == CHOOSE i \in DOMAIN log : log[i].op = name /\ \A j \in 1..(i - 1) : log[j].op # name

\* Run has returned and calls still is the history of that Run
Returned == runResult \notin {"none", "running"} /\ stopCaller # "external"

\* Stop has returned
Stopped == stopResult \notin {"none", "running"}

IsError(e) == e \notin {"none", "running", Nil}

AllFlagsFalse == ~IsRedisExist /\ ~IsStorageExist /\ ~IsAPIExist /\ ~IsTaskExist

\* the subsystem a manager call belongs to
Subsystem(op) ==
    CASE op \in {"redis.LoadFromConfiguration", "redis.ConnectAllAtStart",
                 "redis.DisconnectAll"} -> "redis"
      [] op \in {"databases.LoadFromConfiguration", "databases.ConnectAllAtStart",
                 "tables.ConnectAll", "OnStartStorageReady",
                 "databases.DisconnectAll"} -> "storage"
      [] op \in {"api.StartAll", "api.StopAll"} -> "api"
      [] op \in {"tasks.StartAll", "tasks.StopAll"} -> "tasks"
      [] OTHER -> "configuration"

Flag(sub) ==
    CASE sub = "redis" -> IsRedisExist
      [] sub = "storage" -> IsStorageExist
      [] sub = "api" -> IsAPIExist
      [] sub = "tasks" -> IsTaskExist

TeardownOps == {"tasks.StopAll", "api.StopAll", "redis.DisconnectAll", "databases.DisconnectAll"}

StartOps == {"redis.LoadFromConfiguration", "redis.ConnectAllAtStart",
             "databases.LoadFromConfiguration", "databases.ConnectAllAtStart",
             "tables.ConnectAll", "api.StartAll", "tasks.StartAll"}

----------------------------------------------------------------------------
\* C1: Run invokes OnDefine, OnDefineConfiguration, OnDefineAPI in this order,
\* each only if set and each before execute; when one of them returns a
\* non-nil error it is the last call of the Run (no later define hook, no
\* part of execute) and Run returns exactly that error.
DefineRank(h) ==
    CASE h = "OnDefine" -> 1 [] h = "OnDefineConfiguration" -> 2 [] h = "OnDefineAPI" -> 3

C1_DefineFailFast ==
    /\ \A i \in DOMAIN calls :
          calls[i].op \in DefineHooks =>
             /\ calls[i].op \in hooks
             /\ \A j \in 1..(i - 1) :
                   /\ calls[j].op \in DefineHooks
                   /\ DefineRank(calls[j].op) < DefineRank(calls[i].op)
             /\ calls[i].err # Nil => i = Len(calls) /\ runResult = calls[i].err
    /\ Called(calls, "execute") =>
          \A h \in DefineHooks : Count(calls, h) = IF h \in hooks THEN 1 ELSE 0

C1_Witness ==
    /\ runResult = Err("OnDefineAPI")
    /\ Called(calls, "OnDefine")
    /\ ~Called(calls, "OnDefineConfiguration")

----------------------------------------------------------------------------
\* C2 as claimed: in the calls made by start, no call of an earlier subsystem
\* of [configuration, cache, storage(+tables), api, tasks] follows a call of
\* a later one.
SubsystemRank(op) ==
    CASE Subsystem(op) = "configuration" -> 0
      [] Subsystem(op) = "redis" -> 1
      [] Subsystem(op) = "storage" -> 2
      [] Subsystem(op) = "api" -> 3
      [] Subsystem(op) = "tasks" -> 4

C2_OriginalSubsystemOrder ==
    \A i, j \in DOMAIN startCalls :
       i < j => SubsystemRank(startCalls[i].op) <= SubsystemRank(startCalls[j].op)

\* C2 (amended): the calls made by start are a subsequence of [configuration
\* load, cache load, storage load, cache connect, storage connect, table
\* registration, OnStartStorageReady, API start, task start]: both managers
\* are loaded before either is connected, so the cache connect follows the
\* storage load; otherwise the subsystem order holds.
C2_Order ==
    << "configurations.Load", "redis.LoadFromConfiguration",
       "databases.LoadFromConfiguration", "redis.ConnectAllAtStart",
       "databases.ConnectAllAtStart", "tables.ConnectAll", "OnStartStorageReady",
       "api.StartAll", "tasks.StartAll" >>

C2_Position(op) == CHOOSE k \in DOMAIN C2_Order : C2_Order[k] = op

C2_StartOrder ==
    \A i, j \in DOMAIN startCalls :
       /\ startCalls[i].op \in {C2_Order[k] : k \in DOMAIN C2_Order}
       /\ i < j => C2_Position(startCalls[i].op) < C2_Position(startCalls[j].op)

C2_Witness ==
    /\ startResult = Nil
    /\ Len(startCalls) = Len(C2_Order)

----------------------------------------------------------------------------
\* C3 as claimed: two subsystems that a Stop tears down and that start
\* attempted are torn down in the reverse of the order start attempted them.
Attempted(sub) == \E i \in DOMAIN startCalls : Subsystem(startCalls[i].op) = sub

FirstAttempt(sub) ==
    CHOOSE i \in DOMAIN startCalls :
       /\ Subsystem(startCalls[i].op) = sub
       /\ \A j \in 1..(i - 1) : Subsystem(startCalls[j].op) # sub

Reversed(a, b) == (Attempted(a) /\ Attempted(b)) => FirstAttempt(b) < FirstAttempt(a)

C3_OriginalExactReverse ==
    \A i, j \in DOMAIN stopCalls :
       (i < j /\ stopCalls[i].op \in TeardownOps /\ stopCalls[j].op \in TeardownOps)
          => Reversed(Subsystem(stopCalls[i].op), Subsystem(stopCalls[j].op))

\* C3 (amended): the teardown calls of a Stop are made in the fixed order
\* tasks, api, cache, storage, each at most once and only for a set presence
\* flag; this is the reverse of the order start attempted the subsystems
\* except for cache and storage, which are torn down in the order they were
\* started.
C3_TeardownRank(op) ==
    CASE op = "tasks.StopAll" -> 1 [] op = "api.StopAll" -> 2
      [] op = "redis.DisconnectAll" -> 3 [] op = "databases.DisconnectAll" -> 4

C3_StopOrder ==
    \A j \in DOMAIN stopCalls :
       stopCalls[j].op \in TeardownOps =>
          /\ Flag(Subsystem(stopCalls[j].op))
          /\ \A i \in 1..(j - 1) :
                stopCalls[i].op \in TeardownOps =>
                   /\ C3_TeardownRank(stopCalls[i].op) < C3_TeardownRank(stopCalls[j].op)
                   /\ {stopCalls[i].op, stopCalls[j].op}
                         # {"redis.DisconnectAll", "databases.DisconnectAll"}
                      => Reversed(Subsystem(stopCalls[i].op), Subsystem(stopCalls[j].op))

C3_Witness ==
    /\ Stopped
    /\ Len(startCalls) = Len(C2_Order)
    /\ \A op \in TeardownOps : Called(stopCalls, op)

----------------------------------------------------------------------------
\* C4: when start is about to return nil (every call it made returned nil),
\* for the loaded section set S each presence flag is true exactly when its
\* section is in S, every load/connect/start method of a subsystem manager
\* has been invoked exactly once if its section is in S and never otherwise,
\* and the configuration loader exactly once.
C4_StartPerSubset ==
    pc = "start.return" =>
       /\ \A sec \in Sections : Flag(sec) = (sec \in Configurations)
       /\ \A op \in StartOps :
             Count(startCalls, op) = IF Subsystem(op) \in Configurations THEN 1 ELSE 0
       /\ Count(startCalls, "configurations.Load") = 1
       /\ \A i \in DOMAIN startCalls :
             /\ startCalls[i].err = Nil
             /\ startCalls[i].op \in StartOps \cup {"configurations.Load", "OnStartStorageReady"}

C4_Witness ==
    /\ pc = "start.return"
    /\ Configurations = {"tasks"}
    /\ Count(startCalls, "tasks.StartAll") = 1
    /\ Len(startCalls) = 2
    /\ RootContextDone

----------------------------------------------------------------------------
\* C5: the first non-nil error E a task of the group returns is the group's
\* error and cancels the group's context at once (siblings still running can
\* observe it); Wait returns only after every launched task has returned and
\* returns E, and execute and Run return E unchanged.
C5_TaskErrorPropagates ==
    /\ RuntimeErrorGroup.err = firstFailure.err
    /\ firstFailure.err # Nil => RuntimeErrorGroupContextDone
    /\ \A i \in DOMAIN calls :
          calls[i].op = "Wait" =>
             /\ IsLoop
             /\ RuntimeErrorGroup.running = 0
             /\ calls[i].err = firstFailure.err
             /\ calls[i].err # Nil =>
                   IF Returned THEN runResult = calls[i].err ELSE retErr = calls[i].err

C5_Witness ==
    /\ Returned
    /\ runResult \in TaskErrors
    /\ Called(calls, "Wait")
    /\ firstFailure.siblings > 0
    /\ IsError(stopResult)

----------------------------------------------------------------------------
\* C6 as claimed: whenever Run has returned a non-nil error after start had
\* successfully connected or started at least one subsystem, Stop was invoked
\* by that Run.
StartedSomething ==
    \E i \in DOMAIN startCalls :
       /\ startCalls[i].op \in {"redis.ConnectAllAtStart", "databases.ConnectAllAtStart",
                                "api.StartAll", "tasks.StartAll"}
       /\ startCalls[i].err = Nil

C6_OriginalTeardownOnFailure ==
    (Returned /\ runResult # Nil /\ StartedSomething) => Called(calls, "Stop")

\* C6 (amended): whenever Run has returned a non-nil error with IsLoop true
\* after start returned nil (the failure being OnExecute or a supervised
\* task), Stop was invoked before the root context was cancelled and Run
\* returned, calling teardown methods only of subsystems whose presence flag
\* is set and, unless a teardown step failed, of all of them; when start
\* itself failed or IsLoop is false, Run did not invoke Stop.
C6_TeardownOnFailure ==
    (Returned /\ runResult # Nil) =>
       IF startResult = Nil /\ IsLoop
          THEN /\ Called(calls, "Stop")
               /\ First(calls, "Stop") < First(calls, "RootContextCancel")
               /\ \A op \in TeardownOps :
                     /\ Called(calls, op) => Flag(Subsystem(op))
                     /\ (Flag(Subsystem(op)) /\ \A i \in DOMAIN calls :
                            calls[i].op \in TeardownOps => calls[i].err = Nil)
                           => Called(calls, op)
          ELSE /\ ~Called(calls, "Stop")
               /\ \A op \in TeardownOps : ~Called(calls, op)

C6_Witness ==
    /\ Returned
    /\ runResult = Err("OnExecute")
    /\ IsLoop
    /\ Called(calls, "redis.DisconnectAll")
    /\ Called(calls, "databases.DisconnectAll")

----------------------------------------------------------------------------
\* C7: if start returns an error E, execute returns E at once: neither
\* OnExecute nor Wait nor Stop is invoked (whatever IsLoop is), only the
\* deferred root-context cancellation is left to run, and once Run has
\* returned E the root context is cancelled.
C7_StartErrorReturnsAtOnce ==
    (IsError(startResult) /\ stopCaller # "external") =>
       /\ ~Called(calls, "OnExecute")
       /\ ~Called(calls, "Wait")
       /\ ~Called(calls, "Stop")
       /\ IF Returned
             THEN /\ runResult = startResult
                  /\ calls[Len(calls)].op = "RootContextCancel"
                  /\ RootContextDone
             ELSE /\ pc = "RootContextCancel"
                  /\ retErr = startResult
                  /\ startCalls[Len(startCalls)].err = startResult

C7_Witness ==
    /\ Returned
    /\ ~IsLoop
    /\ "OnExecute" \in hooks
    /\ startResult = Err("api.StartAll")
    /\ runResult = Err("api.StartAll")

----------------------------------------------------------------------------
\* C8: when Run has returned with IsLoop true and start having returned nil,
\* Stop was invoked exactly once, after OnExecute and Wait and before the
\* root-context cancellation, and Run's result is OnExecute's error, or else
\* what Wait returned, whatever Stop returned.
C8_ExpectedResult ==
    IF Called(calls, "OnExecute") /\ calls[First(calls, "OnExecute")].err # Nil
       THEN calls[First(calls, "OnExecute")].err
       ELSE IF Called(calls, "Wait") THEN calls[First(calls, "Wait")].err ELSE "none"

C8_StopExactlyOnce ==
    (Returned /\ startResult = Nil /\ IsLoop) =>
       /\ Count(calls, "Stop") = 1
       /\ Count(calls, "RootContextCancel") = 1
       /\ First(calls, "Stop") < First(calls, "RootContextCancel")
       /\ \A i \in DOMAIN calls :
             calls[i].op \in {"OnExecute", "Wait"} => i < First(calls, "Stop")
       /\ runResult = C8_ExpectedResult

C8_Witness ==
    /\ Returned
    /\ startResult = Nil
    /\ IsLoop
    /\ runResult = Nil
    /\ stopCaller = "defer"
    /\ stopResult = Err("api.StopAll")

----------------------------------------------------------------------------
\* C9: a Stop that has returned while all four presence flags are false
\* returned nil and invoked nothing but OnStopping, once if it is set and not
\* at all if it is not, also when OnStopping returned an error.
C9_StopWithoutFlags ==
    (Stopped /\ AllFlagsFalse) =>
       /\ stopResult = Nil
       /\ Len(stopCalls) = IF "OnStopping" \in hooks THEN 1 ELSE 0
       /\ \A i \in DOMAIN stopCalls : stopCalls[i].op = "OnStopping"

C9_Witness ==
    /\ Stopped
    /\ AllFlagsFalse
    /\ stopResult = Nil
    /\ Len(stopCalls) = 1
    /\ stopCalls[1].err = Err("OnStopping")

----------------------------------------------------------------------------
\* C10: GetNameId returns the nameId passed to the most recent Set (the empty
\* string before any Set); no step of Run, start, execute or Stop changes it.
C10_GetNameId ==
    GetNameId = IF lastSetNameId = "none" THEN "" ELSE lastSetNameId

C10_Witness ==
    /\ GetNameId = "svc1"
    /\ Returned
    /\ Stopped
    /\ Called(calls, "Wait")

----------------------------------------------------------------------------
\* C11: Stop makes its teardown calls in the order tasks, api, cache,
\* storage; a teardown call that returns an error E is the last call of that
\* Stop, every flagged step before it was made and returned nil, and Stop
\* returns exactly E; Stop returns nil only if every flagged step was made
\* and returned nil.
C11_Order == <<"tasks.StopAll", "api.StopAll", "redis.DisconnectAll", "databases.DisconnectAll">>

C11_Position(op) == CHOOSE k \in DOMAIN C11_Order : C11_Order[k] = op

C11_StopFailFast ==
    /\ \A j \in DOMAIN stopCalls :
          stopCalls[j].op \in TeardownOps =>
             /\ \A i \in 1..(j - 1) :
                   stopCalls[i].op \in TeardownOps =>
                      /\ C11_Position(stopCalls[i].op) < C11_Position(stopCalls[j].op)
                      /\ stopCalls[i].err = Nil
             /\ \A op \in TeardownOps :
                   C11_Position(op) < C11_Position(stopCalls[j].op) /\ Flag(Subsystem(op))
                      => Called(stopCalls, op)
             /\ stopCalls[j].err # Nil =>
                   /\ j = Len(stopCalls)
                   /\ stopResult = stopCalls[j].err
    /\ Stopped /\ stopResult = Nil =>
          \A op \in TeardownOps :
             Flag(Subsystem(op)) => \E i \in DOMAIN stopCalls : stopCalls[i] = Call(op, Nil)
    /\ Stopped /\ stopResult # Nil =>
          /\ stopCalls # <<>>
          /\ stopCalls[Len(stopCalls)] = Call(stopCalls[Len(stopCalls)].op, stopResult)
          /\ stopCalls[Len(stopCalls)].op \in TeardownOps

\* Stop was aborted by the API teardown although cache and storage are present
C11_Witness ==
    /\ Stopped
    /\ stopResult = Err("api.StopAll")
    /\ IsRedisExist /\ IsStorageExist
    /\ Called(stopCalls, "tasks.StopAll")
    /\ ~Called(stopCalls, "redis.DisconnectAll")

----------------------------------------------------------------------------
\* C12: when start was aborted by an error of a subsystem's own load,
\* connect or start call, that subsystem's presence flag is true from then
\* on, and a Stop that follows invokes the subsystem's teardown method.
C12_Teardown(sub) == CHOOSE op \in TeardownOps : Subsystem(op) = sub

\* the call of start that returned the error start was aborted with
C12_FailedBy(op) == IsError(startResult) /\ startResult = Err(op)

C12_OriginalTeardownOfFailedSubsystem ==
    \A op \in StartOps :
       C12_FailedBy(op) =>
          /\ Flag(Subsystem(op))
          /\ Stopped => Called(stopCalls, C12_Teardown(Subsystem(op)))

\* C12 (amended): ... its presence flag is true from then on, and a Stop
\* that follows invokes the subsystem's teardown method unless a teardown
\* step earlier in Stop's order returned an error and aborted that Stop.
C12_AbortedBefore(op) ==
    /\ stopCalls # <<>>
    /\ stopCalls[Len(stopCalls)].op \in TeardownOps
    /\ stopCalls[Len(stopCalls)].err # Nil
    /\ C11_Position(stopCalls[Len(stopCalls)].op) < C11_Position(op)

C12_TeardownOfFailedSubsystem ==
    \A op \in StartOps :
       C12_FailedBy(op) =>
          /\ Flag(Subsystem(op))
          /\ pc \in {"RootContextCancel", "idle"} /\ stopResult = "none"
                => startCalls[Len(startCalls)] = Call(op, startResult)
          /\ Stopped =>
                \/ Called(stopCalls, C12_Teardown(Subsystem(op)))
                \/ C12_AbortedBefore(C12_Teardown(Subsystem(op)))

\* the storage connect failed and a later Stop disconnected the storage
C12_Witness ==
    /\ C12_FailedBy("databases.ConnectAllAtStart")
    /\ Stopped
    /\ Called(stopCalls, "databases.DisconnectAll")
    /\ ~Called(startCalls, "tables.ConnectAll")

----------------------------------------------------------------------------
\* C13: a start whose configuration load fails returns that error having
\* made no other call and assigned no presence flag: the step that enters
\* start and the failing load both leave the four flags as they were.
C13_LoadFailed == startResult = Err("configurations.Load")

C13_LoadFailureKeepsFlags ==
    /\ [][/\ pc = "execute" => UNCHANGED flagVars /\ startCalls' = <<>>
          /\ pc = "configurations.Load" /\ C13_LoadFailed' =>
                /\ UNCHANGED flagVars
                /\ retErr' = Err("configurations.Load")
                /\ pc' = "RootContextCancel"]_vars
    /\ [](C13_LoadFailed =>
             startCalls = <<Call("configurations.Load", Err("configurations.Load"))>>)

\* the load of a second Run failed; the flags an earlier start set are kept
C13_Witness ==
    /\ C13_LoadFailed
    /\ pc = "idle"
    /\ IsRedisExist /\ IsStorageExist /\ IsAPIExist /\ IsTaskExist

----------------------------------------------------------------------------
\* C14: a presence flag changes only in the step of start that assigns it,
\* and start passes each of its steps at most once per call (it only moves
\* forward through them); every other step (the define hooks, the rest of
\* execute, Wait, the deferred calls, Stop and a repeated Stop, Set) leaves
\* the four flags unchanged.
C14_StepIndex(step) == CHOOSE k \in DOMAIN StartSteps : StartSteps[k] = step

C14_InStart(step) == \E k \in DOMAIN StartSteps : StartSteps[k] = step

C14_FlagsAssignedOnlyInStart ==
    [][/\ IsRedisExist' # IsRedisExist => pc = "redis.LoadFromConfiguration"
       /\ IsStorageExist' # IsStorageExist => pc = "databases.LoadFromConfiguration"
       /\ IsAPIExist' # IsAPIExist => pc = "api.lookup"
       /\ IsTaskExist' # IsTaskExist => pc = "tasks.StartAll"
       /\ C14_InStart(pc) /\ C14_InStart(pc') /\ pc' # pc
             => C14_StepIndex(pc) < C14_StepIndex(pc')
       /\ ~C14_InStart(pc) /\ C14_InStart(pc')
             => pc = "execute" /\ pc' = StartSteps[1]]_vars

\* the deferred Stop of a loop run and then a second Stop by the embedding
\* application both tore the cache down, from the flag start had set
C14_Witness ==
    /\ IsLoop /\ deferStop /\ startResult = Nil
    /\ stopCaller = "external"
    /\ Stopped
    /\ IsRedisExist
    /\ Called(stopCalls, "redis.DisconnectAll")

----------------------------------------------------------------------------
\* C15: whenever start is at, or has made, the call of api.StartAll or of
\* tasks.StartAll, the cache connect has returned nil if the cache section
\* is present, and the storage connect, the table registration and
\* OnStartStorageReady (if set) have returned nil if the storage section is
\* present.
C15_Launchers == {"api.StartAll", "tasks.StartAll"}

C15_DoneBefore(j, op) == \E i \in 1..(j - 1) : startCalls[i] = Call(op, Nil)

C15_FoundationReady(j, redis, storage) ==
    /\ redis => C15_DoneBefore(j, "redis.ConnectAllAtStart")
    /\ storage =>
          /\ C15_DoneBefore(j, "databases.ConnectAllAtStart")
          /\ C15_DoneBefore(j, "tables.ConnectAll")
          /\ "OnStartStorageReady" \in hooks => C15_DoneBefore(j, "OnStartStorageReady")

C15_FoundationBeforeRunLoops ==
    /\ pc \in C15_Launchers =>
          C15_FoundationReady(Len(startCalls) + 1, HasSection("redis"), HasSection("storage"))
    /\ \A j \in DOMAIN startCalls :
          startCalls[j].op \in C15_Launchers =>
             C15_FoundationReady(j, IsRedisExist, IsStorageExist)

\* both run-loop managers were started over a connected cache and storage
C15_Witness ==
    /\ Called(startCalls, "api.StartAll")
    /\ Called(startCalls, "tasks.StartAll")
    /\ IsRedisExist /\ IsStorageExist
    /\ "OnStartStorageReady" \in hooks
    /\ RuntimeErrorGroup.running > 0

----------------------------------------------------------------------------
\* C16: the whole cache step, connect included, completes before the storage
\* step begins, and the whole storage step completes before the api flag is
\* determined: the storage manager is loaded with the cache connected.
C16_OriginalListedOrder ==
    /\ \A j \in DOMAIN startCalls :
          startCalls[j].op = "databases.LoadFromConfiguration" /\ IsRedisExist
             => C15_DoneBefore(j, "redis.ConnectAllAtStart")
    /\ pc = "api.lookup" /\ IsStorageExist
          => C15_DoneBefore(Len(startCalls) + 1, "databases.ConnectAllAtStart")

\* C16 (amended): start first sets the cache flag and loads the cache
\* manager, then sets the storage flag and loads the storage manager, then
\* determines the api flag, and only then connects the cache and after it
\* the storage: the storage manager is loaded, and the api flag determined,
\* with the cache loaded but nothing connected.
C16_Connects == {"redis.ConnectAllAtStart", "databases.ConnectAllAtStart",
                 "tables.ConnectAll", "OnStartStorageReady"}

C16_NoConnectBefore(j) == \A i \in 1..(j - 1) : startCalls[i].op \notin C16_Connects

C16_LoadsBeforeConnects ==
    /\ \A j \in DOMAIN startCalls :
          /\ startCalls[j].op = "databases.LoadFromConfiguration" =>
                /\ C16_NoConnectBefore(j)
                /\ IsRedisExist => C15_DoneBefore(j, "redis.LoadFromConfiguration")
          /\ startCalls[j].op = "redis.ConnectAllAtStart" =>
                /\ C16_NoConnectBefore(j)
                /\ IsStorageExist => C15_DoneBefore(j, "databases.LoadFromConfiguration")
          /\ startCalls[j].op = "databases.ConnectAllAtStart" /\ IsRedisExist
                => C15_DoneBefore(j, "redis.ConnectAllAtStart")
    /\ pc = "api.lookup" =>
          /\ C16_NoConnectBefore(Len(startCalls) + 1)
          /\ IsRedisExist => Called(startCalls, "redis.LoadFromConfiguration")
          /\ IsStorageExist => Called(startCalls, "databases.LoadFromConfiguration")

\* the storage manager's load failed with the cache loaded but not connected
C16_Witness ==
    /\ C12_FailedBy("databases.LoadFromConfiguration")
    /\ IsRedisExist
    /\ Called(startCalls, "redis.LoadFromConfiguration")
    /\ ~Called(startCalls, "redis.ConnectAllAtStart")
    /\ pc = "idle"

----------------------------------------------------------------------------
\* C17: every execute, a second one in the same process included, enters
\* start with a new group that holds no task and no error, and the group's
\* context is not cancelled when start reaches its first registration of
\* run loops (api.StartAll).
C17_FreshGroupEveryExecute ==
    /\ pc = StartSteps[1] =>
          /\ RuntimeErrorGroup = [running |-> 0, err |-> Nil]
          /\ firstFailure = NoFailure
    /\ pc = "api.StartAll" =>
          /\ RuntimeErrorGroup = [running |-> 0, err |-> Nil]
          /\ ~RuntimeErrorGroupContextDone

----------------------------------------------------------------------------
\* C18: shutdown of a loop run.

\* a step of the initiating thread inside Run or Stop: every hook and every
\* manager call returns, and the thread then executes its next statement
ThreadStep ==
    \/ OnDefine \/ OnDefineConfiguration \/ OnDefineAPI \/ Execute
    \/ LoadConfiguration \/ RedisLoad \/ StorageLoad \/ ApiLookup
    \/ RedisConnect \/ StorageConnect \/ TablesConnect \/ OnStartStorageReady
    \/ ApiStart \/ TasksStart \/ DeferStop \/ OnExecute \/ Wait
    \/ RootContextCancel
    \/ StopBegin \/ OnStopping \/ StopTasks \/ StopAPI \/ StopRedis
    \/ StopStorage \/ StopReturnNil

\* a run loop that honours cancellation returns once the context is cancelled
CooperativeTaskReturn ==
    /\ RuntimeErrorGroupContextDone
    /\ \E e \in {Nil} \cup TaskErrors : TaskReturn(e)

LiveSpec ==
    /\ Init
    /\ [][Next]_vars
    /\ WF_vars(ThreadStep)
    /\ WF_vars(CooperativeTaskReturn)

\* C18: with isLoop true, when every call of the thread returns and every
\* run loop returns once the context is cancelled, a Run in which a run loop
\* has returned an error eventually returns with the root context
\* cancelled; the thread leaves Wait only when no run loop is left running,
\* and the number of running loops falls only by a loop returning of its own
\* accord (or by a new execute replacing the group), so a loop that never
\* returns keeps Wait, and Run, blocked.
C18_TaskFailed == IsLoop /\ runResult = "running" /\ firstFailure.err # Nil

C18_RunReturned == runResult \notin {"none", "running"} /\ RootContextDone /\ pc = "idle"

C18_Shutdown ==
    /\ C18_TaskFailed ~> C18_RunReturned
    /\ [][/\ pc = "Wait" /\ pc' # "Wait" => RuntimeErrorGroup.running = 0
          /\ RuntimeErrorGroup.running' < RuntimeErrorGroup.running =>
                \/ /\ RuntimeErrorGroup.running' = RuntimeErrorGroup.running - 1
                   /\ UNCHANGED threadVars
                \/ pc = "execute"]_vars

\* a loop run returned the error of a run loop after waiting for a sibling
\* that was still running when the error occurred, and Stop has run
C18_Witness ==
    /\ IsLoop
    /\ Returned
    /\ runResult \in TaskErrors
    /\ firstFailure.siblings > 0
    /\ Called(calls, "Wait")
    /\ Stopped
    /\ RootContextDone

----------------------------------------------------------------------------
\* C19: single-writer-then-freeze: the thread makes no write to a presence
\* flag or to the group reference while a run loop launched into the group
\* has not yet returned.

\* the thread executes a statement that assigns a presence flag (app.go:106,
\* 113, 120, 151) or the group reference (app.go:197)
C19_Write ==
    /\ pc' # pc
    /\ pc \in {"execute", "redis.LoadFromConfiguration",
               "databases.LoadFromConfiguration", "api.lookup", "tasks.StartAll"}

C19_SingleWriterThenFreeze ==
    [][RuntimeErrorGroup.running > 0 => ~C19_Write /\ UNCHANGED flagVars]_vars

----------------------------------------------------------------------------
\* C20: with isLoop false a Run never waits for the group, never registers
\* or runs the deferred Stop and makes no teardown call; when start and
\* OnExecute succeeded it returns nil with the root context cancelled, also
\* when run loops are still running or have returned an error, which is
\* never Run's result.
C20_StopSteps == {"Stop", "OnStopping", "Stop.return"} \cup TeardownOps

C20_NonLoopNoWaitNoStop ==
    ~IsLoop =>
       /\ pc # "Wait"
       /\ ~deferStop
       /\ pc \in C20_StopSteps => stopCaller = "external"
       /\ runResult = "running" \/ Returned =>
             /\ ~Called(calls, "Wait")
             /\ ~Called(calls, "Stop")
             /\ \A op \in TeardownOps : ~Called(calls, op)
             /\ stopResult = "none"
       /\ Returned => runResult \notin TaskErrors
       /\ Returned /\ Called(calls, "execute") =>
             /\ RootContextDone
             /\ calls[Len(calls)] = Call("RootContextCancel", Nil)
             /\ startResult = Nil /\ calls[Len(calls) - 1] # Call("OnExecute", Err("OnExecute"))
                   => runResult = Nil

\* a non-loop Run returned nil although one run loop had returned an error
\* and another was still running
C20_Witness ==
    /\ ~IsLoop
    /\ Returned
    /\ runResult = Nil
    /\ RootContextDone
    /\ firstFailure.err # Nil
    /\ RuntimeErrorGroup.running > 0
    /\ IsAPIExist

====
